---------------------------- MODULE Spec2Model ----------------------------
(***************************************************************************)
(* A model of avhttp's cookie jar (include/avhttp/cookie.hpp): the class   *)
(* cookies with its vector m_cookies, the Set-Cookie tokenizer, the        *)
(* Netscape cookie-file codec, the Cookie: header builder and operator+.   *)
(*                                                                         *)
(* Strings are sequences of characters; a character is a one-character     *)
(* TLA+ string, except the two bytes that have no printable form, named    *)
(* CTL (a control character) and HIGH (a byte above 127).  A ptime is a    *)
(* number of seconds since the epoch, or not_a_date_time.                  *)
(***************************************************************************)
EXTENDS Integers, Sequences, FiniteSets, TLC

VARIABLES
    m_cookies,          \* cookies::m_cookies of the jar under test
    m_default_domain,   \* cookies::m_default_domain of the jar under test
    rhs,                \* m_cookies of a second jar, the right operand of operator+
    ret,                \* the value returned by the last call that returns one
    file,               \* the cookie file: whether it exists, and its bytes
    input,              \* the Set-Cookie string being received, and the items it is made of
    last                \* the last call made: its name, arguments and the jar before it

vars == <<m_cookies, m_default_domain, rhs, ret, file, input, last>>

(***************************************************************************)
(* Bounds of the model.                                                    *)
(***************************************************************************)
MaxMerge == 3       \* records in both operands of operator+ together
MaxSelf == 2        \* records of a jar that is added to itself
MaxCookies == 2     \* records of the jar under test
MaxSaved == 2       \* records of a jar that is saved to the cookie file
MaxItems == 4       \* items (name=value pairs and flags) of a Set-Cookie string
MaxInserts == 2     \* calls that add records to a jar

(***************************************************************************)
(* boost::posix_time::ptime.  A default-constructed ptime is               *)
(* not_a_date_time; its comparisons go through int_adapter::compare, which *)
(* answers "unordered" when either side is not_a_date_time, so < is false  *)
(* then, and the derived > and <= are  y < x  and  ~(y < x).               *)
(***************************************************************************)
not_a_date_time == -1

ptime_less(x, y) == x # not_a_date_time /\ y # not_a_date_time /\ x < y

ptime_greater(x, y) == ptime_less(y, x)

ptime_less_equal(x, y) == ~ptime_less(y, x)

is_not_a_date_time(x) == x = not_a_date_time

(***************************************************************************)
(* cookie_t, as its constructor leaves it.                                 *)
(***************************************************************************)
cookie_t == [name |-> <<>>, value |-> <<>>, domain |-> <<>>, path |-> <<>>,
             expires |-> not_a_date_time, httponly |-> FALSE, secure |-> FALSE]

Expiries == {not_a_date_time, 1, 2}

(***************************************************************************)
(* cookies::find(const std::string&) and cookies::find(const http_cookie&):*)
(* the index of the first match, 0 for end().                              *)
(***************************************************************************)
\* find with the last match in place of the first
RECURSIVE find_last_from(_, _, _)
find_last_from(container, key, i) ==
    IF i > Len(container) THEN 0
    ELSE IF find_last_from(container, key, i + 1) # 0 THEN find_last_from(container, key, i + 1)
    ELSE IF container[i].name = key THEN i
    ELSE 0

RECURSIVE find_from(_, _, _)
find_from(container, key, i) ==
    IF i > Len(container) THEN 0
    ELSE IF container[i].name = key THEN i
    ELSE find_from(container, key, i + 1)

find(container, key) == find_from(container, key, 1)

RECURSIVE find_cookie_from(_, _, _)
find_cookie_from(container, key, i) ==
    IF i > Len(container) THEN 0
    ELSE IF /\ container[i].name = key.name
            /\ container[i].domain = key.domain
            /\ container[i].path = key.path THEN i
    ELSE find_cookie_from(container, key, i + 1)

find_cookie(container, key) == find_cookie_from(container, key, 1)

\* a test that looks the record up by name alone
cookie_megerable_by_name(element, container) ==
    LET it == find(container, element.name) IN
    IF it = 0 THEN TRUE
    ELSE IF element.value = <<>> THEN FALSE
    ELSE IF container[it].value = <<>> THEN TRUE
    ELSE IF ptime_less_equal(element.expires, container[it].expires) THEN FALSE
    ELSE TRUE

(***************************************************************************)
(* detail::cookie_megerable: existence is looked up by (name, domain,      *)
(* path), the comparison is made with the first record of that name.       *)
(***************************************************************************)
cookie_megerable(element, container) ==
    LET it == find(container, element.name) IN
    IF find_cookie(container, element) = 0 THEN TRUE
    ELSE IF element.value = <<>> THEN FALSE
    ELSE IF container[it].value = <<>> THEN TRUE
    ELSE IF ptime_less_equal(element.expires, container[it].expires) THEN FALSE
    ELSE TRUE

cookie_not_megerable(element, container) == ~cookie_megerable(element, container)

(***************************************************************************)
(* compare_by_expires(std::greater<ptime>()).                              *)
(***************************************************************************)
compare_by_expires(l, r) == ptime_greater(l.expires, r.expires)

(***************************************************************************)
(* std::sort(tmp.begin(), tmp.end(), compare_by_expires(greater)).         *)
(* std::sort leaves the order of equivalent elements unspecified, and      *)
(* not_a_date_time is unordered with every expiry, so the comparison is no *)
(* strict weak ordering.  The outcomes are the permutations of the input   *)
(* in which no element is followed by one that compares before it: for a   *)
(* strict weak ordering these are the sorted sequences, and an insertion   *)
(* sort's result is always among them.                                     *)
(***************************************************************************)
RECURSIVE sort_from(_, _, _)
sort_from(tmp, left, prev) ==
    IF left = {} THEN {<<>>}
    ELSE UNION {
        {<<tmp[i]>> \o rest : rest \in sort_from(tmp, left \ {i}, i)} :
            i \in {j \in left : prev = 0 \/ ~compare_by_expires(tmp[j], tmp[prev])}}

sort(tmp) == sort_from(tmp, DOMAIN tmp, 0)

(***************************************************************************)
(* std::remove_copy_if(tmp.begin(), tmp.end(), back_inserter(ret),         *)
(*                     bind(cookie_not_megerable, _1, ref(ret))).          *)
(***************************************************************************)
RECURSIVE remove_copy_if(_, _, _)
remove_copy_if(tmp, i, out) ==
    IF i > Len(tmp) THEN out
    ELSE IF cookie_not_megerable(tmp[i], out) THEN remove_copy_if(tmp, i + 1, out)
    ELSE remove_copy_if(tmp, i + 1, Append(out, tmp[i]))

(***************************************************************************)
(* operator+(lhs, rhs): the set of values it can return.                   *)
(***************************************************************************)
operator_plus(l, r) == {remove_copy_if(tmp, 1, <<>>) : tmp \in sort(l \o r)}

(***************************************************************************)
(* cookies::get_cookie_line(is_https) at wall-clock time now: the jar is   *)
(* added to an empty one, and merged is what that addition returned.       *)
(***************************************************************************)
RECURSIVE cookie_line_from(_, _, _, _, _)
cookie_line_from(merged, i, is_https, now, cookie) ==
    IF i > Len(merged) THEN cookie
    ELSE IF merged[i].value = <<>>
        THEN cookie_line_from(merged, i + 1, is_https, now, cookie)
    ELSE IF merged[i].secure /\ ~is_https
        THEN cookie_line_from(merged, i + 1, is_https, now, cookie)
    ELSE IF ~is_not_a_date_time(merged[i].expires) /\ ptime_less(merged[i].expires, now)
        THEN cookie_line_from(merged, i + 1, is_https, now, cookie)
    ELSE cookie_line_from(merged, i + 1, is_https, now,
            (IF cookie # <<>> THEN cookie \o <<";", " ">> ELSE cookie)
                \o merged[i].name \o <<"=">> \o merged[i].value)

\* A header builder that sends a secure cookie over any connection.
get_cookie_line_any_scheme(merged, is_https, now) ==
    cookie_line_from(merged, 1, TRUE, now, <<>>)

get_cookie_line(merged, is_https, now) == cookie_line_from(merged, 1, is_https, now, <<>>)

(***************************************************************************)
(* cookies::operator[](key).                                               *)
(***************************************************************************)
RECURSIVE operator_index_from(_, _, _)
operator_index_from(container, key, i) ==
    IF i > Len(container) THEN <<>>
    ELSE IF container[i].name = key /\ container[i].value # <<>> THEN container[i].value
    ELSE operator_index_from(container, key, i + 1)

operator_index(container, key) == operator_index_from(container, key, 1)

(***************************************************************************)
(* cookies::remove_cookie(name): std::remove_if, whose returned iterator   *)
(* is dropped, so the vector keeps its size.  The records that stay are    *)
(* moved to the front; behind them a record with the removed name is the   *)
(* one that was there, and any other is what the move left: a copy (the    *)
(* element type is copied) or an emptied record (its strings are moved).   *)
(***************************************************************************)
http_cookie_is_same_name(cookie, m_name) == cookie.name = m_name

RECURSIVE remove_if_front(_, _, _)
remove_if_front(container, m_name, i) ==
    IF i > Len(container) THEN <<>>
    ELSE IF http_cookie_is_same_name(container[i], m_name)
        THEN remove_if_front(container, m_name, i + 1)
    ELSE <<container[i]>> \o remove_if_front(container, m_name, i + 1)

moved_from(c) == [c EXCEPT !.name = <<>>, !.value = <<>>, !.domain = <<>>, !.path = <<>>]

remove_if(container, m_name, moves) ==
    LET front == remove_if_front(container, m_name, 1) IN
    [i \in DOMAIN container |->
        IF i <= Len(front) THEN front[i]
        ELSE IF http_cookie_is_same_name(container[i], m_name) THEN container[i]
        ELSE IF moves THEN moved_from(container[i])
        ELSE container[i]]

remove_cookie(container, m_name) == {remove_if(container, m_name, moves) : moves \in BOOLEAN}

(***************************************************************************)
(* cookies::save_to_file(filename, default_domain).  The file is opened    *)
(* with std::ios::out, which empties it, so fs::file_size is 0 and the     *)
(* memo is written; each record is written as seven fields, each followed  *)
(* by a tab, and the last write, f.write("\t\n", 1), writes one byte.      *)
(* The text of each memo line is cut to its first letter.                  *)
(***************************************************************************)
Digits == <<"0", "1", "2", "3", "4", "5", "6", "7", "8", "9">>

\* std::ostringstream << t, in the "C" locale, for t >= 0
RECURSIVE ostream_insert(_)
ostream_insert(t) ==
    IF t < 10 THEN <<Digits[t + 1]>>
    ELSE ostream_insert(t \div 10) \o <<Digits[(t % 10) + 1]>>

\* detail::ptime_to_time_t: a ptime is held as its seconds since the epoch
ptime_to_time_t(expires) == expires

memo == <<"#", " ", "N", "\n", "#", " ", "h", "\n", "#", " ", "T", "\n", "\n">>

save_cookie(cookie, default_domain) ==
    LET t == IF cookie.expires # not_a_date_time THEN ptime_to_time_t(cookie.expires) ELSE 0
    IN  (IF cookie.domain = <<>> THEN default_domain ELSE cookie.domain) \o <<"\t">>
        \o (IF cookie.domain = <<>> THEN <<"F", "A", "L", "S", "E">>
                                    ELSE <<"T", "R", "U", "E">>) \o <<"\t">>
        \o cookie.path \o <<"\t">>
        \o (IF cookie.secure THEN <<"T", "R", "U", "E">>
                             ELSE <<"F", "A", "L", "S", "E">>) \o <<"\t">>
        \o ostream_insert(t) \o <<"\t">>
        \o cookie.name \o <<"\t">>
        \o cookie.value \o <<"\t">>

RECURSIVE save_cookies(_, _, _)
save_cookies(container, i, default_domain) ==
    IF i > Len(container) THEN <<>>
    ELSE save_cookie(container[i], default_domain)
            \o save_cookies(container, i + 1, default_domain)

save_to_file(opened, container, default_domain) ==
    (IF Len(opened) = 0 THEN memo ELSE <<>>) \o save_cookies(container, 1, default_domain)

(***************************************************************************)
(* cookies::load_from_file(filename).                                      *)
(***************************************************************************)
\* std::getline until eof: the pieces between the newlines
RECURSIVE getlines(_, _, _)
getlines(bytes, i, line) ==
    IF i > Len(bytes) THEN <<line>>
    ELSE IF bytes[i] = "\n" THEN <<line>> \o getlines(bytes, i + 1, <<>>)
    ELSE getlines(bytes, i + 1, Append(line, bytes[i]))

is_space(c) == c \in {" ", "\t", "\n"}

\* boost::trim
RECURSIVE trim(_)
trim(line) ==
    IF line = <<>> THEN line
    ELSE IF is_space(Head(line)) THEN trim(Tail(line))
    ELSE IF is_space(line[Len(line)]) THEN trim(SubSeq(line, 1, Len(line) - 1))
    ELSE line

\* boost::split(split_vec, line, is_any_of("\t"), token_compress_on)
RECURSIVE split(_, _, _)
split(line, i, token) ==
    IF i > Len(line) THEN <<token>>
    ELSE IF line[i] = "\t"
        THEN IF i > 1 /\ line[i - 1] = "\t" THEN split(line, i + 1, token)
             ELSE <<token>> \o split(line, i + 1, <<>>)
    ELSE split(line, i + 1, Append(token, line[i]))

DigitValue(c) == CHOOSE d \in 0..9 : Digits[d + 1] = c

IsDigit(c) == \E d \in 0..9 : Digits[d + 1] = c

\* atol: the value of the leading digits (no sign, no leading blank in the model)
RECURSIVE atol(_, _, _)
atol(field, i, n) ==
    IF i > Len(field) \/ ~IsDigit(field[i]) THEN n
    ELSE atol(field, i + 1, 10 * n + DigitValue(field[i]))

\* boost::posix_time::from_time_t
from_time_t(time) == time

\* split_vec[k]: an index past the end of the vector is undefined behaviour,
\* modelled as reading any of these strings (or as the process crashing)
Garbage == {<<>>, <<"?">>}

FieldValues(split_vec, k) == IF k + 1 <= Len(split_vec) THEN {split_vec[k + 1]} ELSE Garbage

\* the records one line can decode to
load_line(split_vec) ==
    {[cookie_t EXCEPT !.domain = f0, !.path = f2,
                      !.secure = (f3 = <<"T", "R", "U", "E">>),
                      !.expires = from_time_t(atol(f4, 1, 0)),
                      !.name = f5, !.value = f6] :
        f0 \in FieldValues(split_vec, 0), f2 \in FieldValues(split_vec, 2),
        f3 \in FieldValues(split_vec, 3), f4 \in FieldValues(split_vec, 4),
        f5 \in FieldValues(split_vec, 5), f6 \in FieldValues(split_vec, 6)}

\* the lines that are decoded: trimmed, neither empty nor comments
RECURSIVE load_lines(_, _)
load_lines(lines, i) ==
    IF i > Len(lines) THEN <<>>
    ELSE LET line == trim(lines[i]) IN
         IF line = <<>> \/ line[1] = "#" THEN load_lines(lines, i + 1)
         ELSE <<split(line, 1, <<>>)>> \o load_lines(lines, i + 1)

\* the jars a load can leave: one record per decoded line, appended in order
RECURSIVE load_records(_, _, _)
load_records(split_vecs, i, container) ==
    IF i > Len(split_vecs) THEN {container}
    ELSE UNION {load_records(split_vecs, i + 1, Append(container, cookie)) :
                    cookie \in load_line(split_vecs[i])}

NumFields == 7

load_is_undefined(bytes) ==
    \E v \in {load_lines(getlines(bytes, 1, <<>>), 1)} :
        \E i \in DOMAIN v : Len(v[i]) < NumFields

load_from_file(bytes, container) ==
    load_records(load_lines(getlines(bytes, 1, <<>>), 1), 1, container)

(***************************************************************************)
(* The characters.  CTL is a control character and HIGH a byte above 127;  *)
(* CharOrder lists the characters in the order of their byte values, which *)
(* is the order std::string compares by.                                   *)
(***************************************************************************)
CTL == "^A"
HIGH == "\\x80"

UpperCase == <<"A", "B", "C", "D", "E", "F", "G", "H", "I", "J", "K", "L", "M",
               "N", "O", "P", "Q", "R", "S", "T", "U", "V", "W", "X", "Y", "Z">>
LowerCase == <<"a", "b", "c", "d", "e", "f", "g", "h", "i", "j", "k", "l", "m",
               "n", "o", "p", "q", "r", "s", "t", "u", "v", "w", "x", "y", "z">>

CharOrder ==
    <<CTL, "\t", "\n", " ", "\"", "#", "'", ",", "/">> \o Digits \o <<":", ";", "=", "?">>
        \o UpperCase \o <<"_">> \o LowerCase \o <<HIGH>>

Chars == {CharOrder[i] : i \in DOMAIN CharOrder}

CharCodes == [c \in Chars |-> CHOOSE i \in DOMAIN CharOrder : CharOrder[i] = c]

CharCode(c) == CharCodes[c]

\* std::string's operator<
RECURSIVE string_less(_, _)
string_less(x, y) ==
    IF y = <<>> THEN FALSE
    ELSE IF x = <<>> THEN TRUE
    ELSE IF Head(x) # Head(y) THEN CharCode(Head(x)) < CharCode(Head(y))
    ELSE string_less(Tail(x), Tail(y))

\* boost::to_lower_copy
to_lower_table ==
    [c \in Chars |-> IF \E i \in DOMAIN UpperCase : UpperCase[i] = c
                     THEN LowerCase[CHOOSE i \in DOMAIN UpperCase : UpperCase[i] = c]
                     ELSE c]

to_lower(c) == to_lower_table[c]

to_lower_copy(str) == [i \in DOMAIN str |-> to_lower(str[i])]

(***************************************************************************)
(* detail::is_char, detail::is_tspecial and detail::parse_http_date are    *)
(* not part of cookie.hpp.  From the specification: a control character    *)
(* and a byte above 127 are not accepted characters, the separators of RFC *)
(* 2616 are the special ones, and the date parser turns a date text into a *)
(* timestamp or rejects it; a date text is written here as the decimal     *)
(* number of its seconds.                                                  *)
(***************************************************************************)
is_char(c) == c \notin {CTL, HIGH}

is_tspecial(c) == c \in {"\"", ",", "/", ":", ";", "=", "?", " ", "\t"}

parse_http_date(str) ==
    IF str # <<>> /\ \A i \in DOMAIN str : IsDigit(str[i])
    THEN [ok |-> TRUE, time |-> from_time_t(atol(str, 1, 0))]
    ELSE [ok |-> FALSE, time |-> not_a_date_time]

(***************************************************************************)
(* cookies::parse_cookie_string: the tokenizer.  st is the loop's state:   *)
(* state, name, value, the map tmp (a function from names to values) and   *)
(* the two flags of cookie_tmp.                                            *)
(***************************************************************************)
secure_str == <<"s", "e", "c", "u", "r", "e">>
httponly_str == <<"h", "t", "t", "p", "o", "n", "l", "y">>
expires_str == <<"e", "x", "p", "i", "r", "e", "s">>
domain_str == <<"d", "o", "m", "a", "i", "n">>
path_str == <<"p", "a", "t", "h">>

\* tmp[name] = value
map_set(tmp, name, value) ==
    [k \in DOMAIN tmp \cup {name} |-> IF k = name THEN value ELSE tmp[k]]

parse_start ==
    [state |-> "cookie_name_start", name |-> <<>>, value |-> <<>>,
     tmp |-> [k \in {} |-> <<>>], secure |-> FALSE, httponly |-> FALSE]

parse_name_start(st, c) ==
    IF c = " " THEN st
    ELSE IF is_char(c) THEN [st EXCEPT !.name = Append(st.name, c), !.state = "cookie_name"]
    ELSE [st EXCEPT !.state = "cookie_bad"]

parse_name(st, c) ==
    IF c = ";" THEN
        IF st.name = secure_str
            THEN [st EXCEPT !.state = "cookie_name_start", !.secure = TRUE, !.name = <<>>]
        ELSE IF st.name = httponly_str
            THEN [st EXCEPT !.state = "cookie_name_start", !.httponly = TRUE, !.name = <<>>]
        ELSE [st EXCEPT !.state = "cookie_bad", !.name = <<>>]
    ELSE IF c = "=" THEN [st EXCEPT !.value = <<>>, !.state = "cookie_value_start"]
    ELSE IF is_tspecial(c) \/ c = ":"
        THEN [st EXCEPT !.name = <<>>, !.state = "cookie_name_start"]
    ELSE IF is_char(c) \/ c = "_" THEN [st EXCEPT !.name = Append(st.name, c)]
    ELSE st

parse_value_start(st, c) ==
    IF c = ";"
        THEN [st EXCEPT !.tmp = map_set(st.tmp, st.name, st.value), !.name = <<>>,
                        !.value = <<>>, !.state = "cookie_name_start"]
    ELSE IF c = "\"" \/ c = "'" THEN st
    ELSE IF is_char(c) THEN [st EXCEPT !.value = Append(st.value, c), !.state = "cookie_value"]
    ELSE [st EXCEPT !.state = "cookie_bad"]

parse_value(st, c) ==
    IF c = ";" \/ c = "\"" \/ c = "'"
        THEN [st EXCEPT !.tmp = map_set(st.tmp, st.name, st.value), !.name = <<>>,
                        !.value = <<>>, !.state = "cookie_name_start"]
    ELSE IF is_char(c) THEN [st EXCEPT !.value = Append(st.value, c)]
    ELSE [st EXCEPT !.state = "cookie_bad"]

parse_char(st, c) ==
    CASE st.state = "cookie_name_start" -> parse_name_start(st, c)
      [] st.state = "cookie_name" -> parse_name(st, c)
      [] st.state = "cookie_value_start" -> parse_value_start(st, c)
      [] st.state = "cookie_value" -> parse_value(st, c)
      [] st.state = "cookie_bad" -> st

\* while (iter != str.end() && state != cookie_bad)
RECURSIVE parse_loop(_, _, _)
parse_loop(str, i, st) ==
    IF i > Len(str) \/ st.state = "cookie_bad" THEN st
    ELSE parse_loop(str, i + 1, parse_char(st, str[i]))

\* the end of the input
parse_end(st) ==
    IF st.state = "cookie_name" /\ st.name # <<>> THEN
        IF st.name = secure_str THEN [st EXCEPT !.secure = TRUE]
        ELSE IF st.name = httponly_str THEN [st EXCEPT !.httponly = TRUE]
        ELSE st
    ELSE IF st.state = "cookie_value" /\ st.value # <<>>
        THEN [st EXCEPT !.tmp = map_set(st.tmp, st.name, st.value)]
    ELSE st

tokenize(str) == parse_end(parse_loop(str, 1, parse_start))

\* the keys of the map in the order std::map iterates them
RECURSIVE map_keys(_)
map_keys(keys) ==
    IF keys = {} THEN <<>>
    ELSE LET first == CHOOSE k \in keys : \A o \in keys \ {k} : string_less(k, o)
         IN  <<first>> \o map_keys(keys \ {first})

\* the first loop over the map: expires, domain and path go to cookie_tmp.
\* asserted is whether BOOST_ASSERT(0) was reached.
RECURSIVE parse_attributes(_, _, _, _, _)
parse_attributes(tmp, keys, i, cookie_tmp, default_domain) ==
    IF i > Len(keys) THEN cookie_tmp
    ELSE LET first == keys[i]
             second == tmp[first]
         IN  IF to_lower_copy(first) = expires_str THEN
                 LET date == parse_http_date(second) IN
                 parse_attributes(tmp, keys, i + 1,
                     IF date.ok THEN [cookie_tmp EXCEPT !.cookie.expires = date.time]
                     ELSE [cookie_tmp EXCEPT !.asserted = TRUE], default_domain)
             ELSE IF to_lower_copy(first) = domain_str THEN
                 parse_attributes(tmp, keys, i + 1,
                     [cookie_tmp EXCEPT !.cookie.domain =
                         IF second = <<>> /\ default_domain # <<>> THEN default_domain
                         ELSE second], default_domain)
             ELSE IF to_lower_copy(first) = path_str THEN
                 parse_attributes(tmp, keys, i + 1,
                     [cookie_tmp EXCEPT !.cookie.path = second], default_domain)
             ELSE parse_attributes(tmp, keys, i + 1, cookie_tmp, default_domain)

is_attribute(name) == to_lower_copy(name) \in {expires_str, domain_str, path_str}

\* a second loop that leaves the attributes of cookie_tmp out of the records
RECURSIVE parse_records_unshared(_, _, _, _)
parse_records_unshared(tmp, keys, i, cookie_tmp) ==
    IF i > Len(keys) THEN <<>>
    ELSE IF is_attribute(keys[i]) THEN parse_records_unshared(tmp, keys, i + 1, cookie_tmp)
    ELSE <<[cookie_t EXCEPT !.name = keys[i], !.value = tmp[keys[i]]]>>
            \o parse_records_unshared(tmp, keys, i + 1, cookie_tmp)

\* the second loop: one record for each name left in the map
RECURSIVE parse_records(_, _, _, _)
parse_records(tmp, keys, i, cookie_tmp) ==
    IF i > Len(keys) THEN <<>>
    ELSE IF is_attribute(keys[i]) THEN parse_records(tmp, keys, i + 1, cookie_tmp)
    ELSE <<[cookie_tmp EXCEPT !.name = keys[i], !.value = tmp[keys[i]]]>>
            \o parse_records(tmp, keys, i + 1, cookie_tmp)

\* a parser that does not return false in cookie_bad
parse_cookie_string_lenient(str, default_domain) ==
    LET st == tokenize(str)
        keys == map_keys(DOMAIN st.tmp)
        attrs == parse_attributes(st.tmp, keys, 1,
                    [cookie |-> [cookie_t EXCEPT !.secure = st.secure,
                                                 !.httponly = st.httponly],
                     asserted |-> FALSE], default_domain)
    IN  [ok |-> TRUE, cookie |-> parse_records(st.tmp, keys, 1, attrs.cookie),
         asserted |-> attrs.asserted]

\* the two loops over the map
parse_map(st, keys, default_domain) ==
    LET attrs == parse_attributes(st.tmp, keys, 1,
                    [cookie |-> [cookie_t EXCEPT !.secure = st.secure,
                                                 !.httponly = st.httponly],
                     asserted |-> FALSE], default_domain)
    IN  [ok |-> TRUE, cookie |-> parse_records(st.tmp, keys, 1, attrs.cookie),
         asserted |-> attrs.asserted]

parse_tokens(st, default_domain) ==
    IF st.state = "cookie_bad" THEN [ok |-> FALSE, cookie |-> <<>>, asserted |-> FALSE]
    ELSE parse_map(st, map_keys(DOMAIN st.tmp), default_domain)

parse_cookie_string(str, default_domain) == parse_tokens(tokenize(str), default_domain)

(***************************************************************************)
(* The names, values and records the calls on the jar draw from, and the   *)
(* wall-clock times of a call.                                             *)
(***************************************************************************)
Names == {<<"a">>, <<"b">>}
Values == {<<>>, <<"1">>, <<"2">>}
Times == {0, 1, 2}

Cookies ==
    {[cookie_t EXCEPT !.name = n, !.value = v, !.expires = e, !.secure = s] :
        n \in Names, v \in {<<>>, <<"1">>}, e \in {not_a_date_time, 1}, s \in BOOLEAN}

\* the records and the default_domain arguments of the codec specification: one
\* record with every field set, and each record that differs from it in one field
SavedCookie ==
    [cookie_t EXCEPT !.name = <<"a">>, !.value = <<"1">>, !.domain = <<"d">>,
                     !.path = <<"/">>, !.expires = 12]

SavedCookies ==
    {SavedCookie,
     [SavedCookie EXCEPT !.name = <<"b">>],
     [SavedCookie EXCEPT !.value = <<>>],
     [SavedCookie EXCEPT !.domain = <<>>],
     [SavedCookie EXCEPT !.path = <<>>],
     [SavedCookie EXCEPT !.expires = not_a_date_time],
     [SavedCookie EXCEPT !.secure = TRUE]}

DefaultDomains == {<<>>, <<"x">>}

(***************************************************************************)
(* The records the merge specification builds its operands from.           *)
(***************************************************************************)
MergeNames == {<<"n">>}
MergeDomains == {<<>>, <<"d">>}
MergeValues == {<<>>, <<"v">>}

MergeCookies ==
    {[cookie_t EXCEPT !.name = n, !.domain = d, !.value = v, !.expires = e] :
        n \in MergeNames, d \in MergeDomains, v \in MergeValues, e \in Expiries}

FullKey(c) == <<c.name, c.domain, c.path>>

FullKeys(container) == {FullKey(container[i]) : i \in DOMAIN container}

Init ==
    /\ m_cookies = <<>>
    /\ m_default_domain = <<>>
    /\ rhs = <<>>
    /\ ret = <<>>
    /\ file = [exists |-> FALSE, bytes |-> <<>>]
    /\ input = [str |-> <<>>, items |-> <<>>]
    /\ last = [op |-> "init"]

(***************************************************************************)
(* The calls on one jar.                                                   *)
(***************************************************************************)
\* cookies::operator()(name, value)
CallNameValue(name, value) ==
    /\ Len(m_cookies) < MaxCookies
    /\ m_cookies' = Append(m_cookies, [cookie_t EXCEPT !.name = name, !.value = value])
    /\ ret' = <<>>
    /\ last' = [op |-> "operator()(name, value)", name |-> name, value |-> value]
    /\ UNCHANGED <<input, m_default_domain, rhs, file>>

\* cookies::operator()(cookie)
CallCookie(cookie) ==
    /\ Len(m_cookies) < MaxCookies
    /\ m_cookies' = Append(m_cookies, cookie)
    /\ ret' = <<>>
    /\ last' = [op |-> "operator()(cookie)"]
    /\ UNCHANGED <<input, m_default_domain, rhs, file>>

RemoveCookie(name) ==
    /\ m_cookies' \in remove_cookie(m_cookies, name)
    /\ ret' = <<>>
    /\ last' = [op |-> "remove_cookie", name |-> name, before |-> m_cookies]
    /\ UNCHANGED <<input, m_default_domain, rhs, file>>

Clear ==
    /\ m_cookies' = <<>>
    /\ ret' = <<>>
    /\ last' = [op |-> "clear"]
    /\ UNCHANGED <<input, m_default_domain, rhs, file>>

GetCookieLine(is_https, now) ==
    /\ IF Len(m_cookies) # 0
       THEN \E merged \in operator_plus(<<>>, m_cookies) :
               /\ ret' = get_cookie_line(merged, is_https, now)
               /\ last' = [op |-> "get_cookie_line", is_https |-> is_https, now |-> now,
                           merged |-> merged]
       ELSE /\ ret' = <<>>
            /\ last' = [op |-> "get_cookie_line", is_https |-> is_https, now |-> now,
                        merged |-> <<>>]
    /\ UNCHANGED <<input, m_cookies, m_default_domain, rhs, file>>

OperatorIndex(key) ==
    /\ ret' = operator_index(m_cookies, key)
    /\ last' = [op |-> "operator[]", key |-> key]
    /\ UNCHANGED <<input, m_cookies, m_default_domain, rhs, file>>

Next ==
    \/ \E name \in Names, value \in Values : CallNameValue(name, value)
    \/ \E cookie \in Cookies : CallCookie(cookie)
    \/ \E name \in Names : RemoveCookie(name)
    \/ Clear
    \/ \E is_https \in BOOLEAN, now \in Times : GetCookieLine(is_https, now)
    \/ \E key \in Names : OperatorIndex(key)

Spec == Init /\ [][Next]_vars

(***************************************************************************)
(* The header specification: a jar is filled and its Cookie: line built.   *)
(***************************************************************************)
NextLine ==
    \/ \E cookie \in Cookies : CallCookie(cookie)
    \/ \E is_https \in BOOLEAN, now \in Times : GetCookieLine(is_https, now)

SpecLine == Init /\ [][NextLine]_vars

RECURSIVE PairLine(_)
PairLine(cs) ==
    IF cs = <<>> THEN <<>>
    ELSE IF Len(cs) = 1 THEN cs[1].name \o <<"=">> \o cs[1].value
    ELSE cs[1].name \o <<"=">> \o cs[1].value \o <<";", " ">> \o PairLine(Tail(cs))

Selections(container) ==
    UNION {[1..k -> DOMAIN container] : k \in 0..Len(container)}

Selected(container, f) == [i \in DOMAIN f |-> container[f[i]]]

C1_Sendable(c) ==
    /\ c.value # <<>>
    /\ c.secure => last.is_https
    /\ is_not_a_date_time(c.expires) \/ c.expires >= last.now

(***************************************************************************)
(* C1: the line of get_cookie_line is made of name=value pairs of records  *)
(* of the jar that have a value, are not secure unless the connection is   *)
(* https, and have no expiry or one not earlier than the current time; and *)
(* a record of the deduplicated jar with no expiry, a value and an         *)
(* admissible secure flag is in the line whatever the time.                *)
(***************************************************************************)
C1_CookieLineFilter ==
    last.op = "get_cookie_line" =>
        /\ \E f \in Selections(m_cookies) :
              /\ ret = PairLine(Selected(m_cookies, f))
              /\ \A i \in DOMAIN f : C1_Sendable(m_cookies[f[i]])
        /\ \E g \in Selections(last.merged) :
              /\ ret = PairLine(Selected(last.merged, g))
              /\ \A i \in DOMAIN last.merged :
                    /\ is_not_a_date_time(last.merged[i].expires)
                    /\ last.merged[i].value # <<>>
                    /\ last.merged[i].secure => last.is_https
                    => \E k \in DOMAIN g : g[k] = i

C1_Witness ==
    /\ last.op = "get_cookie_line"
    /\ ret # <<>>
    /\ ~last.is_https
    /\ \E i \in DOMAIN m_cookies : m_cookies[i].secure /\ m_cookies[i].value # <<>>
    /\ \E i \in DOMAIN m_cookies : is_not_a_date_time(m_cookies[i].expires)

(***************************************************************************)
(* C9: after remove_cookie(name) no record of that name is left, the size  *)
(* has gone down by the number of records that had the name, and the other *)
(* records are as before, in their order.                                  *)
(***************************************************************************)
C9_Others(container, name) == SelectSeq(container, LAMBDA c : c.name # name)

C9_RemoveCookieRemoves ==
    last.op = "remove_cookie" =>
        /\ find(m_cookies, last.name) = 0
        /\ Len(m_cookies) = Len(C9_Others(last.before, last.name))
        /\ m_cookies = C9_Others(last.before, last.name)

(***************************************************************************)
(* C10: when the jar ends with the record of cookie(name, v1) followed by  *)
(* the record of cookie(name, v2), v1 and v2 different and not empty, and  *)
(* holds no other record of that name, operator[] reports v2 for name and  *)
(* get_cookie_line sends name=v2.                                          *)
(***************************************************************************)
C10_Updated(name) ==
    LET n == Len(m_cookies) IN
    /\ n >= 2
    /\ m_cookies[n - 1] = [cookie_t EXCEPT !.name = name, !.value = m_cookies[n - 1].value]
    /\ m_cookies[n] = [cookie_t EXCEPT !.name = name, !.value = m_cookies[n].value]
    /\ m_cookies[n - 1].value # <<>>
    /\ m_cookies[n].value # <<>>
    /\ m_cookies[n - 1].value # m_cookies[n].value
    /\ \A i \in 1..(n - 2) : m_cookies[i].name # name

C10_UpdateIsReported ==
    /\ (last.op = "operator[]" /\ C10_Updated(last.key)) =>
          ret = m_cookies[Len(m_cookies)].value
    /\ (last.op = "get_cookie_line" /\ \E name \in Names : C10_Updated(name)) =>
          \E f \in Selections(last.merged) :
              /\ ret = PairLine(Selected(last.merged, f))
              /\ \E k \in DOMAIN f : last.merged[f[k]] = m_cookies[Len(m_cookies)]
              /\ \A k \in DOMAIN f : last.merged[f[k]] # m_cookies[Len(m_cookies) - 1]

(***************************************************************************)
(* The codec specification: the jar is filled and saved, and the file is   *)
(* loaded into the second jar.                                             *)
(***************************************************************************)
PushSaved(cookie) ==
    /\ Len(m_cookies) < MaxSaved
    /\ m_cookies' = Append(m_cookies, cookie)
    /\ ret' = <<>>
    /\ last' = [op |-> "push_back"]
    /\ UNCHANGED <<input, m_default_domain, rhs, file>>

SaveToFile(default_domain) ==
    /\ file' = [exists |-> TRUE, bytes |-> save_to_file(<<>>, m_cookies, default_domain)]
    /\ ret' = <<>>
    /\ last' = [op |-> "save_to_file", default_domain |-> default_domain,
                fresh |-> ~file.exists, before |-> file.bytes]
    /\ UNCHANGED <<input, m_cookies, m_default_domain, rhs>>

\* the call before this one, when it was a save_to_file
PreviousCall == IF last.op = "save_to_file" THEN last ELSE [op |-> last.op]

\* the second jar is emptied (a new jar) and loads the file
LoadFromFile ==
    /\ file.exists
    /\ \/ /\ rhs' \in load_from_file(file.bytes, <<>>)
          /\ last' = [op |-> "load_from_file", after |-> PreviousCall, crashed |-> FALSE]
       \/ /\ load_is_undefined(file.bytes)
          /\ rhs' = <<>>
          /\ last' = [op |-> "load_from_file", after |-> PreviousCall, crashed |-> TRUE]
    /\ ret' = <<>>
    /\ UNCHANGED <<input, m_cookies, m_default_domain, file>>

\* the files another program leaves at the path: a record line of seven
\* fields followed by a line of six, and the same two lines the other way round
ForeignFiles ==
    {memo \o save_cookie(SavedCookie, <<>>) \o <<"\n">>
          \o save_cookie([SavedCookie EXCEPT !.name = <<"b">>, !.value = <<>>], <<>>) \o <<"\n">>,
     memo \o save_cookie([SavedCookie EXCEPT !.name = <<"b">>, !.value = <<>>], <<>>) \o <<"\n">>
          \o save_cookie(SavedCookie, <<>>) \o <<"\n">>}

WriteFile(bytes) ==
    /\ file' = [exists |-> TRUE, bytes |-> bytes]
    /\ ret' = <<>>
    /\ last' = [op |-> "write"]
    /\ UNCHANGED <<input, m_cookies, m_default_domain, rhs>>

NextFile ==
    \/ \E cookie \in SavedCookies : PushSaved(cookie)
    \/ \E default_domain \in DefaultDomains : SaveToFile(default_domain)
    \/ \E bytes \in ForeignFiles : WriteFile(bytes)
    \/ LoadFromFile

SpecFile == Init /\ [][NextFile]_vars

(***************************************************************************)
(* C5: loading, into an empty jar, the file a jar was just saved to as a   *)
(* fresh file gives the records of the saved jar in their order, with      *)
(* domain, path, secure, name, value and expires (in seconds) as saved.    *)
(***************************************************************************)
C5_Saved(c) == <<c.domain, c.path, c.secure, c.name, c.value, c.expires>>

C5_RoundTrip ==
    (/\ last.op = "load_from_file"
     /\ last.after.op = "save_to_file"
     /\ last.after.fresh
     /\ last.after.default_domain = <<>>) =>
        /\ ~last.crashed
        /\ Len(rhs) = Len(m_cookies)
        /\ \A i \in DOMAIN rhs : C5_Saved(rhs[i]) = C5_Saved(m_cookies[i])

(***************************************************************************)
(* The merge specification: two jars are filled with push_back and added.  *)
(***************************************************************************)
PushLhs(c) ==
    /\ Len(m_cookies) + Len(rhs) < MaxMerge
    /\ m_cookies' = Append(m_cookies, c)
    /\ ret' = <<>>
    /\ last' = [op |-> "push_back"]
    /\ UNCHANGED <<input, m_default_domain, rhs, file>>

PushRhs(c) ==
    /\ Len(m_cookies) + Len(rhs) < MaxMerge
    /\ rhs' = Append(rhs, c)
    /\ ret' = <<>>
    /\ last' = [op |-> "push_back"]
    /\ UNCHANGED <<input, m_cookies, m_default_domain, file>>

Plus ==
    /\ ret' \in operator_plus(m_cookies, rhs)
    /\ last' = [op |-> "operator+"]
    /\ UNCHANGED <<input, m_cookies, m_default_domain, rhs, file>>

\* merge(S, S)
SelfPlus ==
    /\ Len(m_cookies) <= MaxSelf
    /\ ret' \in operator_plus(m_cookies, m_cookies)
    /\ last' = [op |-> "S+S"]
    /\ UNCHANGED <<input, m_cookies, m_default_domain, rhs, file>>

\* merge(merge(S, S), S), with merge(S, S) kept in last.first
SelfPlusAgain ==
    /\ last.op = "S+S"
    /\ ret' \in operator_plus(ret, m_cookies)
    /\ last' = [op |-> "(S+S)+S", first |-> ret]
    /\ UNCHANGED <<input, m_cookies, m_default_domain, rhs, file>>

NextMerge ==
    \/ \E c \in MergeCookies : PushLhs(c)
    \/ \E c \in MergeCookies : PushRhs(c)
    \/ Plus

SpecMerge == Init /\ [][NextMerge]_vars

(***************************************************************************)
(* The self-merge specification: one jar is filled and added to itself.    *)
(***************************************************************************)
NextSelfMerge ==
    \/ \E c \in MergeCookies : PushLhs(c)
    \/ SelfPlus
    \/ SelfPlusAgain

SpecSelfMerge == Init /\ [][NextSelfMerge]_vars

(***************************************************************************)
(* The Set-Cookie strings.  A string is a list of at most MaxItems items   *)
(* joined by "; ", with or without a closing ";".  The items: name=value   *)
(* pairs, the two flags, a bare name, and a pair whose name holds a byte    *)
(* above 127.                                                              *)
(***************************************************************************)
Pair(name, value) ==
    [kind |-> "pair", name |-> name, value |-> value, text |-> name \o <<"=">> \o value]

Flag(name) == [kind |-> "flag", name |-> name, value |-> <<>>, text |-> name]

Bare(name) == [kind |-> "bare", name |-> name, value |-> <<>>, text |-> name]

Invalid(text) == [kind |-> "invalid", name |-> <<>>, value |-> <<>>, text |-> text]

Items ==
    {Pair(<<"a">>, <<"1">>), Pair(<<"b">>, <<"2">>),
     Pair(domain_str, <<"d">>), Pair(<<"D">> \o Tail(domain_str), <<"e">>),
     Pair(path_str, <<"p">>), Pair(expires_str, <<"1">>),
     Flag(secure_str), Flag(httponly_str),
     Bare(<<"x">>),
     Invalid(<<"b", HIGH, "=", "2">>)}

\* the jar the string arrives at
Received == <<[cookie_t EXCEPT !.name = <<"c">>, !.value = <<"0">>]>>

InitParse ==
    /\ m_cookies = Received
    /\ m_default_domain = <<>>
    /\ rhs = <<>>
    /\ ret = <<>>
    /\ file = [exists |-> FALSE, bytes |-> <<>>]
    /\ input = [str |-> <<>>, items |-> <<>>]
    /\ last = [op |-> "init"]

\* one more item of the string arrives
Receive(item) ==
    /\ last.op = "init"
    /\ Len(input.items) < MaxItems
    /\ input' = [str |-> IF input.items = <<>> THEN item.text
                         ELSE input.str \o <<";", " ">> \o item.text,
                 items |-> Append(input.items, item)]
    /\ UNCHANGED <<m_cookies, m_default_domain, rhs, ret, file, last>>

\* cookies::operator()(str), on the string received, closed by trailing.
\* Where BOOST_ASSERT(0) is reached the call aborts in a build that keeps
\* assertions and goes on in one that does not.
CallString(trailing) ==
    /\ last.op = "init"
    /\ \E cookie \in {parse_cookie_string(input.str \o trailing, m_default_domain)} :
       \E aborted \in (IF cookie.asserted THEN BOOLEAN ELSE {FALSE}) :
           /\ m_cookies' = IF cookie.ok /\ ~aborted THEN m_cookies \o cookie.cookie
                           ELSE m_cookies
           /\ last' = [op |-> "operator()(str)", str |-> input.str \o trailing,
                       before |-> m_cookies, aborted |-> aborted]
    /\ ret' = <<>>
    /\ UNCHANGED <<input, m_default_domain, rhs, file>>

NextParse ==
    \/ \E item \in Items : Receive(item)
    \/ \E trailing \in {<<>>, <<";">>} : CallString(trailing)

SpecParse == InitParse /\ [][NextParse]_vars

(***************************************************************************)
(* C2: the result of operator+ never holds two records with the same       *)
(* (name, domain, path).                                                   *)
(***************************************************************************)
C2_MergeDeduplicates ==
    last.op = "operator+" =>
        \A i, j \in DOMAIN ret : FullKey(ret[i]) = FullKey(ret[j]) => i = j

(***************************************************************************)
(* C3: when exactly two records of the operands share a (name, domain,     *)
(* path), both with a value and with different expiry dates, operator+     *)
(* returns the one that expires later and not the one that expires         *)
(* earlier.                                                                *)
(***************************************************************************)
Operands == m_cookies \o rhs

Holds(container, c) == \E i \in DOMAIN container : container[i] = c

C3_Pair(i, j) ==
    /\ FullKey(Operands[i]) = FullKey(Operands[j])
    /\ \A k \in DOMAIN Operands :
          FullKey(Operands[k]) = FullKey(Operands[i]) => k \in {i, j}
    /\ Operands[i].value # <<>>
    /\ Operands[j].value # <<>>
    /\ ~is_not_a_date_time(Operands[i].expires)
    /\ ~is_not_a_date_time(Operands[j].expires)
    /\ Operands[i].expires < Operands[j].expires

C3_MergeKeepsLaterExpiry ==
    last.op = "operator+" =>
        \A i, j \in DOMAIN Operands :
            C3_Pair(i, j) => Holds(ret, Operands[j]) /\ ~Holds(ret, Operands[i])

(***************************************************************************)
(* C4: merge(merge(S, S), S) has the full keys of merge(S, S) and, for     *)
(* each full key, the value merge(S, S) has for it (the value of the first *)
(* record with that key).                                                  *)
(***************************************************************************)
ChosenValue(container, c) == container[find_cookie(container, c)].value

C4_SelfMergeIdempotent ==
    last.op = "(S+S)+S" =>
        /\ FullKeys(ret) = FullKeys(last.first)
        /\ \A i \in DOMAIN ret : ChosenValue(ret, ret[i]) = ChosenValue(last.first, ret[i])

(***************************************************************************)
(* C6: when the tokenizer reaches cookie_bad on the string given to        *)
(* operator()(str), nothing is appended: the jar is as it was before the   *)
(* call, also when valid pairs come before the malformed item.             *)
(***************************************************************************)
C6_Bad == tokenize(last.str).state = "cookie_bad"

C6_BadRejectsAll ==
    (last.op = "operator()(str)" /\ C6_Bad) => m_cookies = last.before

\* "a=1; x;" was given: the pair a=1 is in the map when the bare name fails
C6_Witness ==
    /\ last.op = "operator()(str)"
    /\ last.str = <<"a", "=", "1", ";", " ", "x", ";">>
    /\ C6_Bad
    /\ DOMAIN tokenize(last.str).tmp = {<<"a">>}
    /\ m_cookies = last.before
    /\ last.before # <<>>

(***************************************************************************)
(* C7: for a string made of name=value pairs and flags only, the call      *)
(* appends exactly one record for each distinct name that is not expires,  *)
(* domain or path in any letter case, with the value the string gives the  *)
(* name, and every record has the domain, path and expires the string      *)
(* gives and the secure and httponly flags it names.                       *)
(***************************************************************************)
C7_WellFormed ==
    /\ input.items # <<>>
    /\ \A i \in DOMAIN input.items : input.items[i].kind \in {"pair", "flag"}

C7_Values(name) ==
    {input.items[i].value : i \in {j \in DOMAIN input.items :
        input.items[j].kind = "pair" /\ to_lower_copy(input.items[j].name) = name}}

C7_Names ==
    {input.items[i].name : i \in {j \in DOMAIN input.items :
        /\ input.items[j].kind = "pair"
        /\ to_lower_copy(input.items[j].name) \notin {expires_str, domain_str, path_str}}}

C7_Flag(name) ==
    \E i \in DOMAIN input.items : input.items[i].kind = "flag" /\ input.items[i].name = name

C7_Shared(values, attribute, none) ==
    IF values = {} THEN attribute = none ELSE attribute \in values

C7_New == SubSeq(m_cookies, Len(last.before) + 1, Len(m_cookies))

C7_OneRecordPerName ==
    (last.op = "operator()(str)" /\ C7_WellFormed) =>
        /\ SubSeq(m_cookies, 1, Len(last.before)) = last.before
        /\ Len(C7_New) = Cardinality(C7_Names)
        /\ \A name \in C7_Names : \E i \in DOMAIN C7_New : C7_New[i].name = name
        /\ \A i \in DOMAIN C7_New :
            /\ C7_New[i].name \in C7_Names
            /\ C7_New[i].value \in C7_Values(C7_New[i].name)
            /\ C7_Shared(C7_Values(domain_str), C7_New[i].domain, <<>>)
            /\ C7_Shared(C7_Values(path_str), C7_New[i].path, <<>>)
            /\ C7_Shared({parse_http_date(v).time : v \in C7_Values(expires_str)},
                         C7_New[i].expires, not_a_date_time)
            /\ C7_New[i].secure = C7_Flag(secure_str)
            /\ C7_New[i].httponly = C7_Flag(httponly_str)

\* "a=1; b=2; domain=d; path=p" was given and two records were appended
C7_Witness ==
    /\ last.op = "operator()(str)"
    /\ C7_WellFormed
    /\ last.str = <<"a", "=", "1", ";", " ", "b", "=", "2", ";", " ">>
                    \o domain_str \o <<"=", "d", ";", " ">> \o path_str \o <<"=", "p">>
    /\ C7_New = <<[cookie_t EXCEPT !.name = <<"a">>, !.value = <<"1">>,
                                   !.domain = <<"d">>, !.path = <<"p">>],
                  [cookie_t EXCEPT !.name = <<"b">>, !.value = <<"2">>,
                                   !.domain = <<"d">>, !.path = <<"p">>]>>

(***************************************************************************)
(* C8: when the string given to operator()(str) has an item whose name     *)
(* holds a character that is neither a token character nor a separator,    *)
(* the parse fails and no record is appended.                              *)
(***************************************************************************)
C8_InvalidNameFails ==
    (/\ last.op = "operator()(str)"
     /\ \E i \in DOMAIN input.items : input.items[i].kind = "invalid") =>
        /\ ~parse_cookie_string(last.str, m_default_domain).ok
        /\ m_cookies = last.before

(***************************************************************************)
(* The insert specification: records are added to one jar by               *)
(* operator()(name, value), operator()(cookie), operator()(str) and        *)
(* load_from_file, at most MaxInserts calls; last.added lists the records  *)
(* the calls handed to push_back, in the order of the calls.  The files    *)
(* hold one record on each line, as curl writes them, seven fields each.   *)
(***************************************************************************)
InsertStrings ==
    {Pair(<<"a">>, <<"1">>).text,
     Pair(<<"b">>, <<"2">>).text \o <<";", " ">> \o Pair(<<"a">>, <<"1">>).text,
     Bare(<<"x">>).text \o <<";">>}

InsertFiles ==
    {memo \o save_cookie(SavedCookie, <<>>) \o <<"\n">>,
     memo \o save_cookie([SavedCookie EXCEPT !.name = <<"b">>], <<>>) \o <<"\n">>
          \o save_cookie(SavedCookie, <<>>) \o <<"\n">>}

Added == IF last.op = "init" THEN <<>> ELSE last.added

Calls == IF last.op = "init" THEN 0 ELSE last.calls

InsertNameValue(name, value) ==
    /\ Calls < MaxInserts
    /\ m_cookies' = Append(m_cookies, [cookie_t EXCEPT !.name = name, !.value = value])
    /\ last' = [op |-> "operator()(name, value)", calls |-> Calls + 1,
                added |-> Append(Added, [cookie_t EXCEPT !.name = name, !.value = value])]
    /\ UNCHANGED <<input, m_default_domain, rhs, ret, file>>

InsertCookie(cookie) ==
    /\ Calls < MaxInserts
    /\ m_cookies' = Append(m_cookies, cookie)
    /\ last' = [op |-> "operator()(cookie)", calls |-> Calls + 1,
                added |-> Append(Added, cookie)]
    /\ UNCHANGED <<input, m_default_domain, rhs, ret, file>>

InsertString(str) ==
    /\ Calls < MaxInserts
    /\ \E cookie \in {parse_cookie_string(str, m_default_domain)} :
           /\ m_cookies' = IF cookie.ok THEN m_cookies \o cookie.cookie ELSE m_cookies
           /\ last' = [op |-> "operator()(str)", calls |-> Calls + 1,
                       added |-> Added \o cookie.cookie]
    /\ UNCHANGED <<input, m_default_domain, rhs, ret, file>>

\* load_from_file on a file that holds bytes
InsertFile(bytes) ==
    /\ Calls < MaxInserts
    /\ file' = [exists |-> TRUE, bytes |-> bytes]
    /\ m_cookies' \in load_from_file(bytes, m_cookies)
    /\ \E split_vecs \in {load_lines(getlines(bytes, 1, <<>>), 1)} :
           last' = [op |-> "load_from_file", calls |-> Calls + 1,
                    added |-> Added \o [i \in DOMAIN split_vecs |->
                        [cookie_t EXCEPT !.domain = split_vecs[i][1],
                                         !.path = split_vecs[i][3],
                                         !.secure = (split_vecs[i][4] = <<"T", "R", "U", "E">>),
                                         !.expires = atol(split_vecs[i][5], 1, 0),
                                         !.name = split_vecs[i][6],
                                         !.value = split_vecs[i][7]]]]
    /\ UNCHANGED <<input, m_default_domain, rhs, ret>>

NextInsert ==
    \/ \E name \in Names, value \in {<<"1">>, <<"2">>} : InsertNameValue(name, value)
    \/ \E cookie \in SavedCookies : InsertCookie(cookie)
    \/ \E str \in InsertStrings : InsertString(str)
    \/ \E bytes \in InsertFiles : InsertFile(bytes)

SpecInsert == Init /\ [][NextInsert]_vars

(***************************************************************************)
(* C11: after inserts, parse-inserts and file loads only, the jar is the   *)
(* list of the records added, in the order they were added: size() is      *)
(* their number, and find(name) is at the first record added under name.   *)
(***************************************************************************)
C11_Earliest(name) ==
    IF \E i \in DOMAIN Added : Added[i].name = name
    THEN CHOOSE i \in DOMAIN Added :
            /\ Added[i].name = name
            /\ \A j \in 1..(i - 1) : Added[j].name # name
    ELSE 0

RECURSIVE C12_Memos(_)
C12_Memos(bytes) ==
    IF Len(bytes) < Len(memo) THEN 0
    ELSE (IF SubSeq(bytes, 1, Len(memo)) = memo THEN 1 ELSE 0) + C12_Memos(Tail(bytes))

C12_SaveAppends ==
    (last.op = "save_to_file" /\ ~last.fresh) =>
        /\ file.bytes = last.before \o save_cookies(m_cookies, 1, last.default_domain)
        /\ C12_Memos(file.bytes) = 1

(***************************************************************************)
(* C13: a load that meets a record line of fewer than seven fields ends    *)
(* with an error for the caller and leaves the jar without any record of   *)
(* the file, the records of the lines before that line included.           *)
(***************************************************************************)
C13_ShortLineAbortsLoad ==
    (last.op = "load_from_file" /\ load_is_undefined(file.bytes)) =>
        /\ ~last.crashed
        /\ rhs = <<>>

(***************************************************************************)
(* The attribute specification: default_domain is set, then a string of    *)
(* items that bear on the attributes is received and given to              *)
(* operator()(str).  The items: a pair, an expires the date parser         *)
(* rejects, one it accepts, a domain with a value and one without.         *)
(***************************************************************************)
AttributeItems ==
    {Pair(<<"a">>, <<"1">>),
     Pair(expires_str, <<"?">>), Pair(expires_str, <<"1">>),
     Pair(domain_str, <<"d">>), Pair(domain_str, <<>>)}

\* cookies::default_domain(domain)
SetDefaultDomain(domain) ==
    /\ last.op = "init"
    /\ input.items = <<>>
    /\ m_default_domain = <<>>
    /\ m_default_domain' = domain
    /\ UNCHANGED <<m_cookies, rhs, ret, file, input, last>>

NextAttribute ==
    \/ \E domain \in DefaultDomains \ {<<>>} : SetDefaultDomain(domain)
    \/ \E item \in AttributeItems : Receive(item)
    \/ \E trailing \in {<<>>, <<";">>} : CallString(trailing)

SpecAttribute == InitParse /\ [][NextAttribute]_vars

(***************************************************************************)
(* C14: when the string given to operator()(str) has an expires whose      *)
(* value the date parser rejects, the call ends with an error the caller   *)
(* can handle: the process is not aborted, the parse does not return       *)
(* true, and no record is appended.                                        *)
(***************************************************************************)
C14_RejectedDate ==
    LET tmp == tokenize(last.str).tmp IN
    /\ tokenize(last.str).state # "cookie_bad"
    /\ \E k \in DOMAIN tmp : to_lower_copy(k) = expires_str /\ ~parse_http_date(tmp[k]).ok

C14_BadDateIsRecoverable ==
    (last.op = "operator()(str)" /\ C14_RejectedDate) =>
        /\ ~last.aborted
        /\ ~parse_cookie_string(last.str, m_default_domain).ok
        /\ m_cookies = last.before

(***************************************************************************)
(* C15: when default_domain is not empty and the string given to           *)
(* operator()(str) parses and has no domain item, every record the call    *)
(* appends has default_domain as its domain.                               *)
(***************************************************************************)
C15_NoDomainItem ==
    \A i \in DOMAIN input.items : to_lower_copy(input.items[i].name) # domain_str

C15_DefaultDomainWhenOmitted ==
    (/\ last.op = "operator()(str)"
     /\ ~last.aborted
     /\ parse_cookie_string(last.str, m_default_domain).ok
     /\ m_default_domain # <<>>
     /\ C15_NoDomainItem) =>
        \A i \in (Len(last.before) + 1)..Len(m_cookies) :
            m_cookies[i].domain = m_default_domain

(***************************************************************************)
(* C16: whatever calls were made on the jar, with names that are not       *)
(* empty, every record the jar holds has a name that is not empty.         *)
(***************************************************************************)
C16_NamesNotEmpty ==
    \A i \in DOMAIN m_cookies : m_cookies[i].name # <<>>

(***************************************************************************)
(* C17: when the tokenizer is in cookie_name or cookie_value at the end of *)
(* the string, parsing the string and parsing it with ";" added give the   *)
(* same result: both fail, or both succeed with the same records.          *)
(***************************************************************************)
C17_EndState == parse_loop(last.str, 1, parse_start).state

C17_EndOfInputAsSemicolon ==
    (/\ last.op = "operator()(str)"
     /\ last.str = input.str
     /\ C17_EndState \in {"cookie_name", "cookie_value"}) =>
        /\ parse_cookie_string(last.str, m_default_domain)
             = parse_cookie_string(last.str \o <<";">>, m_default_domain)
        /\ m_cookies = last.before
                \o parse_cookie_string(last.str \o <<";">>, m_default_domain).cookie

(***************************************************************************)
(* C18: the records operator+ returns are in descending order of expiry,   *)
(* a record without expiry counting as the latest; records of equal expiry *)
(* are in the order they have in the operands, left then right; and where  *)
(* a record without expiry and records with one share a (name, domain,     *)
(* path), no record with an expiry is returned for it.                     *)
(***************************************************************************)
C18_Later(x, y) ==
    /\ ~is_not_a_date_time(y)
    /\ (is_not_a_date_time(x) \/ x > y)

C18_MergeOrder ==
    last.op = "operator+" =>
        /\ \A i, j \in DOMAIN ret : i < j => ~C18_Later(ret[j].expires, ret[i].expires)
        /\ \A i, j \in DOMAIN ret :
              (i < j /\ ret[i].expires = ret[j].expires) =>
                  \E p, q \in DOMAIN Operands :
                      p <= q /\ Operands[p] = ret[i] /\ Operands[q] = ret[j]
        /\ \A p \in DOMAIN Operands : \A i \in DOMAIN ret :
              (/\ is_not_a_date_time(Operands[p].expires)
               /\ FullKey(ret[i]) = FullKey(Operands[p])) =>
                  is_not_a_date_time(ret[i].expires)

(***************************************************************************)
(* The union specification: the merge specification over six records, of   *)
(* two names and two domains.                                              *)
(***************************************************************************)
UnionCookies ==
    {[cookie_t EXCEPT !.name = <<"n">>, !.value = <<"v">>],
     [cookie_t EXCEPT !.name = <<"n">>, !.expires = 1],
     [cookie_t EXCEPT !.name = <<"n">>, !.domain = <<"d">>, !.value = <<"v">>, !.expires = 1],
     [cookie_t EXCEPT !.name = <<"n">>, !.domain = <<"d">>, !.value = <<"v">>, !.expires = 2],
     [cookie_t EXCEPT !.name = <<"n">>, !.domain = <<"d">>],
     [cookie_t EXCEPT !.name = <<"m">>, !.value = <<"v">>, !.expires = 1]}

NextUnion ==
    \/ \E c \in UnionCookies : PushLhs(c)
    \/ \E c \in UnionCookies : PushRhs(c)
    \/ Plus

SpecUnion == Init /\ [][NextUnion]_vars

(***************************************************************************)
(* C20: the (name, domain, path) keys of the records operator+ returns are *)
(* the keys of the records of its two operands, none missing and none      *)
(* new, and each record returned is a record of one of the operands.       *)
(***************************************************************************)
C20_MergeKeepsKeys ==
    last.op = "operator+" =>
        /\ FullKeys(ret) = FullKeys(m_cookies) \cup FullKeys(rhs)
        /\ \A i \in DOMAIN ret : Holds(m_cookies, ret[i]) \/ Holds(rhs, ret[i])

\* both operands hold records, of two keys in all, and one record of a key
\* both operands have was dropped
C20_Witness ==
    /\ last.op = "operator+"
    /\ m_cookies # <<>> /\ rhs # <<>>
    /\ FullKeys(m_cookies) \cap FullKeys(rhs) # {}
    /\ FullKeys(m_cookies) # FullKeys(rhs)
    /\ Cardinality(FullKeys(ret)) = 2
    /\ Len(ret) < Len(m_cookies) + Len(rhs)
    /\ FullKeys(ret) = FullKeys(m_cookies) \cup FullKeys(rhs)

(***************************************************************************)
(* C19: save_to_file leaves, after the memo, one line for each record of   *)
(* the jar, in order: domain, flag, path, secure, expires in seconds, name *)
(* and value, separated by tabs and ended by a newline; flag is TRUE when  *)
(* the record has a domain, and expires is 0 when it has no expiry.        *)
(***************************************************************************)
C19_Bool(b) == IF b THEN <<"T", "R", "U", "E">> ELSE <<"F", "A", "L", "S", "E">>

C19_Line(c, default_domain) ==
    (IF c.domain = <<>> THEN default_domain ELSE c.domain) \o <<"\t">>
        \o C19_Bool(c.domain # <<>>) \o <<"\t">>
        \o c.path \o <<"\t">>
        \o C19_Bool(c.secure) \o <<"\t">>
        \o (IF is_not_a_date_time(c.expires) THEN <<"0">> ELSE ostream_insert(c.expires))
        \o <<"\t">> \o c.name \o <<"\t">> \o c.value \o <<"\n">>

RECURSIVE C19_Lines(_, _, _)
C19_Lines(container, i, default_domain) ==
    IF i > Len(container) THEN <<>>
    ELSE C19_Line(container[i], default_domain) \o C19_Lines(container, i + 1, default_domain)

C19_OneRecordPerLine ==
    last.op = "save_to_file" =>
        file.bytes = memo \o C19_Lines(m_cookies, 1, last.default_domain)

=============================================================================
